---- MODULE Spec2Model ----
(***************************************************************************)
(* htrackr: a habit tracker over two SQLite tables.                        *)
(*                                                                         *)
(*   date.rs     Date, is_valid, to_string, from_string, num_days          *)
(*   storage.rs  Storage: habits(id, name) and habit_entries(habit_id,     *)
(*               date), one autocommitted SQL statement at a time          *)
(*                                                                         *)
(* Text is modelled as a sequence of ASCII codes, so that formatting,      *)
(* parsing and SQLite's bytewise text comparison are computed and not      *)
(* assumed.                                                                *)
(***************************************************************************)
EXTENDS Integers, Sequences, FiniteSets, Bags, TLC

(***************************************************************************)
(* Bounds of the model.                                                    *)
(***************************************************************************)
\* number of identifiers Uuid::new_v4 hands out in one behaviour
MaxIds == 2
\* the years 1 - YearsBelowOne .. MaxYear are enumerated by the date
\* specification; a span of more than 400 years covers every case of the
\* leap-year rule
YearsBelowOne == 5
MaxYear == 401

(***************************************************************************)
(* Characters (ASCII codes).                                               *)
(***************************************************************************)
Space == 32
Plus == 43
Hyphen == 45
Zero == 48
Newline == 10
LetterX == 88
LetterY == 121

Digit(n) == Zero + n
IsDigit(c) == c >= Zero /\ c <= Zero + 9

(***************************************************************************)
(* date.rs                                                                 *)
(***************************************************************************)
Date(y, m, d) == [year |-> y, month |-> m, day |-> d]

\* the Date carried by an Err result (never inspected)
NoDate == Date(0, 0, 0)

Ok(v) == [ok |-> TRUE, val |-> v]
Err(v) == [ok |-> FALSE, val |-> v]

\* the leap years without the exception of the centuries
leap_year_every_fourth(year) == year % 4 = 0

\* year % 4 == 0 && year % 100 != 0 || year % 400 == 0; Rust's remainder
\* truncates, TLA+'s is the modulus: both are 0 on the same years
leap_year(year) ==
    (year % 4 = 0 /\ year % 100 # 0) \/ (year % 400 = 0)

num_days(year, month) ==
    CASE month = 1 -> 31
      [] month = 2 -> (IF leap_year(year) THEN 29 ELSE 28)
      [] month = 3 -> 31
      [] month = 4 -> 30
      [] month = 5 -> 31
      [] month = 6 -> 30
      [] month = 7 -> 31
      [] month = 8 -> 31
      [] month = 9 -> 30
      [] month = 10 -> 31
      [] month = 11 -> 30
      [] month = 12 -> 31
      [] OTHER -> 0

is_valid(self) ==
    LET m == self.month
        d == self.day
        y == self.year
    IN  IF y < 1 THEN FALSE
        ELSE IF m < 1 \/ m > 12 THEN FALSE
        ELSE IF d < 1 \/ d > num_days(y, m) THEN FALSE
        ELSE TRUE

\* the decimal digits of n >= 0
RECURSIVE Decimal(_)
Decimal(n) ==
    IF n < 10 THEN <<Digit(n)>>
    ELSE Decimal(n \div 10) \o <<Digit(n % 10)>>

RECURSIVE ZeroPad(_, _)
ZeroPad(s, width) ==
    IF Len(s) >= width THEN s ELSE ZeroPad(<<Zero>> \o s, width)

\* format!("{:0w}", n): at least w characters, the sign counted in the
\* width, more when n needs them
FormatInt(n, width) ==
    IF n >= 0 THEN ZeroPad(Decimal(n), width)
    ELSE <<Hyphen>> \o ZeroPad(Decimal(-n), width - 1)

FormatDate(self) ==
    FormatInt(self.year, 4) \o <<Hyphen>> \o FormatInt(self.month, 2)
        \o <<Hyphen>> \o FormatInt(self.day, 2)

\* to_string without the validity test
to_string_unvalidated(self) == Ok(FormatDate(self))

\* Date::to_string: the text is built first, validity decides the result
to_string(self) ==
    LET result == FormatDate(self)
    IN  IF ~is_valid(self) THEN Err(<<>>) ELSE Ok(result)

\* str::trim (the only whitespace of the model is the space)
RECURSIVE TrimStart(_)
TrimStart(s) ==
    IF s # <<>> /\ Head(s) = Space THEN TrimStart(Tail(s)) ELSE s

RECURSIVE TrimEnd(_)
TrimEnd(s) ==
    IF s # <<>> /\ s[Len(s)] = Space THEN TrimEnd(SubSeq(s, 1, Len(s) - 1))
    ELSE s

Trim(s) == TrimEnd(TrimStart(s))

\* index of the first c in s, 0 when there is none
RECURSIVE IndexFrom(_, _, _)
IndexFrom(s, c, i) ==
    IF i > Len(s) THEN 0
    ELSE IF s[i] = c THEN i
    ELSE IndexFrom(s, c, i + 1)

\* str::splitn(n, "-"): at most n parts, the last one keeps the rest
RECURSIVE SplitN(_, _)
SplitN(s, n) ==
    LET i == IndexFrom(s, Hyphen, 1)
    IN  IF n <= 1 \/ i = 0 THEN <<s>>
        ELSE <<SubSeq(s, 1, i - 1)>> \o SplitN(SubSeq(s, i + 1, Len(s)), n - 1)

RECURSIVE DigitsValue(_)
DigitsValue(s) ==
    IF s = <<>> THEN 0
    ELSE 10 * DigitsValue(SubSeq(s, 1, Len(s) - 1)) + (s[Len(s)] - Zero)

\* str::parse::<i32>: an optional sign, then one or more decimal digits.
\* from_string calls it on at most four characters, so the value fits i32.
ParseInt(s) ==
    LET signed == s # <<>> /\ (Head(s) = Plus \/ Head(s) = Hyphen)
        digits == IF signed THEN Tail(s) ELSE s
    IN  IF digits = <<>> \/ \E i \in 1..Len(digits) : ~IsDigit(digits[i])
        THEN Err(0)
        ELSE IF signed /\ Head(s) = Hyphen THEN Ok(-DigitsValue(digits))
        ELSE Ok(DigitsValue(digits))

from_string(date) ==
    LET parts == SplitN(Trim(date), 3)
    IN  IF Len(parts) # 3 THEN Err(NoDate)
        ELSE
        LET y_str == parts[1]
            m_str == parts[2]
            d_str == parts[3]
        IN  IF Len(y_str) # 4 THEN Err(NoDate)
            ELSE IF Len(m_str) # 2 THEN Err(NoDate)
            ELSE IF Len(d_str) # 2 THEN Err(NoDate)
            ELSE
            LET y == ParseInt(y_str)
                m == ParseInt(m_str)
                d == ParseInt(d_str)
            IN  IF ~y.ok \/ ~m.ok \/ ~d.ok THEN Err(NoDate)
                ELSE
                LET result == Date(y.val, m.val, d.val)
                IN  IF is_valid(result) THEN Ok(result) ELSE Err(NoDate)

(***************************************************************************)
(* storage.rs                                                              *)
(*                                                                         *)
(* habits         the rows of table habits in rowid order; a row is        *)
(*                [id, name].  id is the primary key; name carries no      *)
(*                constraint.                                              *)
(* habit_entries  the rows of table habit_entries as a bag of              *)
(*                [habit_id, date]; date is the stored text.  The table    *)
(*                has no key, so equal rows can coexist.  Row order only   *)
(*                decides the order of the Vec get_marked_days returns.    *)
(* foreign_keys   whether SQLite enforces the declared foreign key.        *)
(*                connect issues no PRAGMA foreign_keys, so this is the    *)
(*                default of the SQLite library the program is built       *)
(*                with: either value is possible and it never changes.     *)
(* next_id        how many identifiers Uuid::new_v4 has produced; the      *)
(*                n-th identifier is modelled as the number n (random      *)
(*                128-bit values, never equal to an earlier one).          *)
(* ret            the last call: the operation and what it returned.       *)
(* self_date, formatted, parsed                                            *)
(*                the Date utility under test: a Date, the result of its   *)
(*                to_string, and the result of from_string on that text.   *)
(* date_str       a text handed to from_string.                            *)
(* pc             where each process running against the store stands      *)
(*                inside a Storage operation that issues more than one     *)
(*                SQL statement, with the locals it holds there.           *)
(***************************************************************************)
VARIABLES habits, habit_entries, foreign_keys, next_id, ret,
          self_date, formatted, parsed, date_str, pc

vars == <<habits, habit_entries, foreign_keys, next_id, ret,
          self_date, formatted, parsed, date_str, pc>>

store == <<habits, habit_entries>>
date_vars == <<self_date, formatted, parsed, date_str>>

\* the processes that can run against one habits.db
Procs == {1, 2}

\* a process between two operations
Idle == [at |-> "idle", name |-> "", date |-> NoDate, id |-> 0, n |-> 0]
AllIdle == [p \in Procs |-> Idle]

\* habit names the commands are called with
Names == {"a", "b", ""}

\* Dates the storage operations are called with: an ordinary day, the first
\* day of year 10000, and a day that does not exist
June7 == Date(2006, 6, 7)
Y10K == Date(10000, 1, 1)
Feb30 == Date(2006, 2, 30)
MarkDates == {June7, Y10K, Feb30}
June1 == Date(2006, 6, 1)
June20 == Date(2006, 6, 20)
\* the ranges <<date_start, date_end>> get_marked_days is called with
QueryRanges == {<<June1, June20>>, <<June1, Y10K>>, <<Feb30, June20>>,
                <<June1, Feb30>>}

\* what a call returned: res is "ok" or the kind of failure, val the value
\* of an Ok: a bool, an i32 or id, a Vec<Date> (as a bag) or a Vec<String>
\* a line of the monthly grid: what stands before the "| " separator (the
\* label and the number of spaces after it) and the cells after it
NoLine == [label |-> <<>>, indent |-> 0, cells |-> <<>>]

NoVal == [flag |-> FALSE, num |-> 0, days |-> EmptyBag, names |-> <<>>,
          header |-> NoLine, lines |-> <<>>]
BoolVal(b) == [NoVal EXCEPT !.flag = b]
NumVal(n) == [NoVal EXCEPT !.num = n]
DaysVal(b) == [NoVal EXCEPT !.days = b]
NamesVal(l) == [NoVal EXCEPT !.names = l]
Call(op, res, val) == [op |-> op, res |-> res, val |-> val]

\* SQLite compares TEXT values bytewise (memcmp, then the shorter first)
RECURSIVE TextLeq(_, _)
TextLeq(s, t) ==
    IF s = <<>> THEN TRUE
    ELSE IF t = <<>> THEN FALSE
    ELSE IF Head(s) < Head(t) THEN TRUE
    ELSE IF Head(s) > Head(t) THEN FALSE
    ELSE TextLeq(Tail(s), Tail(t))

\* the rows of a bag of rows that a where-clause selects, as a bag
Rows(rows, sel) == [r \in sel |-> rows[r]]

\* select count(1) from habits where name = ?1
habit_exists(hs, name) ==
    Len(SelectSeq(hs, LAMBDA h : h.name = name)) > 0

\* select name from habits
habit_list(hs) == [i \in 1..Len(hs) |-> hs[i].name]

\* select id from habits where name = ?1; query_row takes the first row
get_habit_id(hs, name) ==
    LET rows == SelectSeq(hs, LAMBDA h : h.name = name)
    IN  IF rows # <<>> THEN Ok(rows[1].id) ELSE Err(0)

\* select count(1) from habit_entries where habit_id = ?1 and date = ?2
count_entries(es, id, date) ==
    BagCardinality(Rows(es, {e \in DOMAIN es :
                                e.habit_id = id /\ e.date = date}))

\* get_marked_days as a function of the tables: a bag of Dates
marked_days(hs, es, name, date_start, date_end) ==
    LET s == to_string(date_start)
        t == to_string(date_end)
        id == get_habit_id(hs, name)
    IN  IF ~s.ok \/ ~t.ok THEN [res |-> "invalid date", val |-> EmptyBag]
        ELSE IF ~id.ok THEN [res |-> "not found", val |-> EmptyBag]
        ELSE
        LET rows == Rows(es, {e \in DOMAIN es :
                        /\ e.habit_id = id.val
                        /\ TextLeq(s.val, e.date)
                        /\ TextLeq(e.date, t.val)})
            \* each row's text is parsed; the rows that fail are skipped
            parses == BagOfAll(LAMBDA e : from_string(e.date), rows)
            good == Rows(parses, {r \in DOMAIN parses : r.ok})
        IN  [res |-> "ok", val |-> BagOfAll(LAMBDA r : r.val, good)]

Init ==
    /\ habits = <<>>
    /\ habit_entries = EmptyBag
    /\ foreign_keys \in BOOLEAN
    /\ next_id = 0
    /\ ret = Call("connect", "ok", NoVal)
    /\ self_date = NoDate
    /\ formatted = Err(<<>>)
    /\ parsed = Err(NoDate)
    /\ date_str = <<>>
    /\ pc = AllIdle

\* create_habit without the test of the empty name
create_habit_any_name(name) ==
    /\ IF habit_exists(habits, name)
       THEN /\ ret' = Call("create_habit", "already exists", NoVal)
            /\ UNCHANGED <<habits, next_id>>
       ELSE /\ next_id < MaxIds
            /\ next_id' = next_id + 1
            /\ habits' = Append(habits, [id |-> next_id + 1, name |-> name])
            /\ ret' = Call("create_habit", "ok", NoVal)
    /\ UNCHANGED <<habit_entries, foreign_keys, date_vars, pc>>

create_habit(name) ==
    /\ IF habit_exists(habits, name)
       THEN /\ ret' = Call("create_habit", "already exists", NoVal)
            /\ UNCHANGED <<habits, next_id>>
       ELSE IF name = ""
       THEN /\ ret' = Call("create_habit", "invalid name", NoVal)
            /\ UNCHANGED <<habits, next_id>>
       ELSE /\ next_id < MaxIds
            /\ next_id' = next_id + 1
            /\ habits' = Append(habits, [id |-> next_id + 1, name |-> name])
            /\ ret' = Call("create_habit", "ok", NoVal)
    /\ UNCHANGED <<habit_entries, foreign_keys, date_vars, pc>>

delete_habit(name) ==
    /\ IF ~habit_exists(habits, name)
       THEN /\ ret' = Call("delete_habit", "not found", NoVal)
            /\ UNCHANGED store
       ELSE
       LET id == get_habit_id(habits, name).val
           \* delete from habit_entries where habit_id = ?1
           entries1 == Rows(habit_entries,
                            {e \in DOMAIN habit_entries : e.habit_id # id})
           \* delete from habits where name = ?1 fails as a whole when a
           \* row it removes is still referenced and the key is enforced
           referenced == \E i \in 1..Len(habits) :
                            /\ habits[i].name = name
                            /\ \E e \in DOMAIN entries1 :
                                  e.habit_id = habits[i].id
       IN  /\ habit_entries' = entries1
           /\ IF foreign_keys /\ referenced
              THEN /\ habits' = habits
                   /\ ret' = Call("delete_habit", "storage error", NoVal)
              ELSE /\ habits' = SelectSeq(habits, LAMBDA h : h.name # name)
                   /\ ret' = Call("delete_habit", "ok", NoVal)
    /\ UNCHANGED <<foreign_keys, next_id, date_vars, pc>>

rename_habit(name, new_name) ==
    /\ IF ~habit_exists(habits, name)
       THEN /\ ret' = Call("rename_habit", "not found", NoVal)
            /\ UNCHANGED habits
       ELSE \* update habits set name = ?1 where name = ?2
            /\ habits' = [i \in 1..Len(habits) |->
                            IF habits[i].name = name
                            THEN [habits[i] EXCEPT !.name = new_name]
                            ELSE habits[i]]
            /\ ret' = Call("rename_habit", "ok", NoVal)
    /\ UNCHANGED <<habit_entries, foreign_keys, next_id, date_vars, pc>>

\* mark_habit without the test of the count: it inserts every time
mark_habit_unchecked(name, date) ==
    /\ LET text == to_string(date)
           id == get_habit_id(habits, name)
       IN  IF ~text.ok
           THEN /\ ret' = Call("mark_habit", "invalid date", NoVal)
                /\ UNCHANGED habit_entries
           ELSE IF ~id.ok
           THEN /\ ret' = Call("mark_habit", "not found", NoVal)
                /\ UNCHANGED habit_entries
           ELSE /\ habit_entries' = habit_entries (+)
                      SetToBag({[habit_id |-> id.val, date |-> text.val]})
                /\ ret' = Call("mark_habit", "ok", NoVal)
    /\ UNCHANGED <<habits, foreign_keys, next_id, date_vars, pc>>

mark_habit(name, date) ==
    /\ LET text == to_string(date)
           id == get_habit_id(habits, name)
       IN  IF ~text.ok
           THEN /\ ret' = Call("mark_habit", "invalid date", NoVal)
                /\ UNCHANGED habit_entries
           ELSE IF ~id.ok
           THEN /\ ret' = Call("mark_habit", "not found", NoVal)
                /\ UNCHANGED habit_entries
           ELSE IF count_entries(habit_entries, id.val, text.val) > 0
           THEN /\ ret' = Call("mark_habit", "already marked", NoVal)
                /\ UNCHANGED habit_entries
           ELSE \* insert into habit_entries (habit_id, date)
                /\ habit_entries' = habit_entries (+)
                      SetToBag({[habit_id |-> id.val, date |-> text.val]})
                /\ ret' = Call("mark_habit", "ok", NoVal)
    /\ UNCHANGED <<habits, foreign_keys, next_id, date_vars, pc>>

\* unmark_habit that reports success when there is nothing to delete
unmark_habit_lenient(name, date) ==
    /\ LET text == to_string(date)
           id == get_habit_id(habits, name)
       IN  IF ~text.ok
           THEN /\ ret' = Call("unmark_habit", "invalid date", NoVal)
                /\ UNCHANGED habit_entries
           ELSE IF ~id.ok
           THEN /\ ret' = Call("unmark_habit", "not found", NoVal)
                /\ UNCHANGED habit_entries
           ELSE /\ habit_entries' = Rows(habit_entries,
                      {e \in DOMAIN habit_entries :
                          ~(e.habit_id = id.val /\ e.date = text.val)})
                /\ ret' = Call("unmark_habit", "ok", NoVal)
    /\ UNCHANGED <<habits, foreign_keys, next_id, date_vars, pc>>

\* unmark_habit whose delete statement leaves out the date
unmark_habit_every_date(name, date) ==
    /\ LET text == to_string(date)
           id == get_habit_id(habits, name)
       IN  IF ~text.ok
           THEN /\ ret' = Call("unmark_habit", "invalid date", NoVal)
                /\ UNCHANGED habit_entries
           ELSE IF ~id.ok
           THEN /\ ret' = Call("unmark_habit", "not found", NoVal)
                /\ UNCHANGED habit_entries
           ELSE IF count_entries(habit_entries, id.val, text.val) = 0
           THEN /\ ret' = Call("unmark_habit", "not marked", NoVal)
                /\ UNCHANGED habit_entries
           ELSE /\ habit_entries' = Rows(habit_entries,
                      {e \in DOMAIN habit_entries : e.habit_id # id.val})
                /\ ret' = Call("unmark_habit", "ok", NoVal)
    /\ UNCHANGED <<habits, foreign_keys, next_id, date_vars, pc>>

unmark_habit(name, date) ==
    /\ LET text == to_string(date)
           id == get_habit_id(habits, name)
       IN  IF ~text.ok
           THEN /\ ret' = Call("unmark_habit", "invalid date", NoVal)
                /\ UNCHANGED habit_entries
           ELSE IF ~id.ok
           THEN /\ ret' = Call("unmark_habit", "not found", NoVal)
                /\ UNCHANGED habit_entries
           ELSE IF count_entries(habit_entries, id.val, text.val) = 0
           THEN /\ ret' = Call("unmark_habit", "not marked", NoVal)
                /\ UNCHANGED habit_entries
           ELSE \* delete from habit_entries where habit_id = ?1 and date = ?2
                /\ habit_entries' = Rows(habit_entries,
                      {e \in DOMAIN habit_entries :
                          ~(e.habit_id = id.val /\ e.date = text.val)})
                /\ ret' = Call("unmark_habit", "ok", NoVal)
    /\ UNCHANGED <<habits, foreign_keys, next_id, date_vars, pc>>

\* what get_marked_days returns, as the last call
Returned(r) == Call("get_marked_days", r.res, DaysVal(r.val))

get_marked_days(name, date_start, date_end) ==
    /\ ret' = Returned(marked_days(habits, habit_entries, name,
                                   date_start, date_end))
    /\ UNCHANGED <<store, foreign_keys, next_id, date_vars, pc>>

Storage_habit_exists(name) ==
    /\ ret' = Call("habit_exists", "ok", BoolVal(habit_exists(habits, name)))
    /\ UNCHANGED <<store, foreign_keys, next_id, date_vars, pc>>

Storage_habit_list ==
    /\ ret' = Call("habit_list", "ok", NamesVal(habit_list(habits)))
    /\ UNCHANGED <<store, foreign_keys, next_id, date_vars, pc>>

Storage_get_habit_id(name) ==
    /\ LET id == get_habit_id(habits, name)
       IN  ret' = IF id.ok THEN Call("get_habit_id", "ok", NumVal(id.val))
                  ELSE Call("get_habit_id", "not found", NoVal)
    /\ UNCHANGED <<store, foreign_keys, next_id, date_vars, pc>>

Next ==
    \/ \E name \in Names : create_habit(name)
    \/ \E name \in Names : delete_habit(name)
    \/ \E name, new_name \in Names : rename_habit(name, new_name)
    \/ \E name \in Names : Storage_habit_exists(name)
    \/ Storage_habit_list
    \/ \E name \in Names : Storage_get_habit_id(name)
    \/ \E name \in Names, date \in MarkDates : mark_habit(name, date)
    \/ \E name \in Names, date \in MarkDates : unmark_habit(name, date)
    \/ \E name \in Names, range \in QueryRanges :
          get_marked_days(name, range[1], range[2])

Spec == Init /\ [][Next]_vars

(***************************************************************************)
(* delete_habit statement by statement.  Each execute autocommits and no   *)
(* transaction encloses the two, so the process can die between them; the  *)
(* store keeps what was committed and the next run connects to it.  One    *)
(* process runs at a time.                                                 *)
(***************************************************************************)
At(p, at, name, date, id, n) ==
    [pc EXCEPT ![p] = [at |-> at, name |-> name, date |-> date, id |-> id,
                       n |-> n]]

\* delete_habit that removes the habit rows in its first statement
delete_habit_rows_first(p, name) ==
    /\ pc = AllIdle
    /\ IF ~habit_exists(habits, name)
       THEN /\ ret' = Call("delete_habit", "not found", NoVal)
            /\ UNCHANGED <<store, pc>>
       ELSE
       LET id == get_habit_id(habits, name).val
       IN  /\ habits' = SelectSeq(habits, LAMBDA h : h.name # name)
           /\ UNCHANGED habit_entries
           /\ pc' = At(p, "entries_deleted", name, NoDate, id, 0)
           /\ UNCHANGED ret
    /\ UNCHANGED <<foreign_keys, next_id, date_vars>>

\* delete_habit up to and including its first statement
delete_habit_entries(p, name) ==
    /\ pc = AllIdle
    /\ IF ~habit_exists(habits, name)
       THEN /\ ret' = Call("delete_habit", "not found", NoVal)
            /\ UNCHANGED <<store, pc>>
       ELSE
       LET id == get_habit_id(habits, name).val
           \* delete from habit_entries where habit_id = ?1
           entries1 == Rows(habit_entries,
                            {e \in DOMAIN habit_entries : e.habit_id # id})
           \* the number of rows the statement removed
           n == BagCardinality(habit_entries) - BagCardinality(entries1)
       IN  /\ habit_entries' = entries1
           /\ UNCHANGED habits
           /\ pc' = At(p, "entries_deleted", name, NoDate, id, n)
           /\ UNCHANGED ret
    /\ UNCHANGED <<foreign_keys, next_id, date_vars>>

\* the second statement of delete_habit and its return
delete_habit_row(p) ==
    /\ pc[p].at = "entries_deleted"
    /\ LET name == pc[p].name
           referenced == \E i \in 1..Len(habits) :
                            /\ habits[i].name = name
                            /\ \E e \in DOMAIN habit_entries :
                                  e.habit_id = habits[i].id
       IN  IF foreign_keys /\ referenced
           THEN /\ habits' = habits
                /\ ret' = Call("delete_habit", "storage error", NoVal)
           ELSE /\ habits' = SelectSeq(habits, LAMBDA h : h.name # name)
                /\ ret' = Call("delete_habit", "ok", NoVal)
    /\ pc' = [pc EXCEPT ![p] = Idle]
    /\ UNCHANGED <<habit_entries, foreign_keys, next_id, date_vars>>

\* the process dies between the two statements
crash(p) ==
    /\ pc[p].at = "entries_deleted"
    /\ pc' = [pc EXCEPT ![p].at = "crashed"]
    /\ ret' = Call("delete_habit", "crashed", NoVal)
    /\ UNCHANGED <<store, foreign_keys, next_id, date_vars>>

\* the next run of the program: connect and initialize (create table if not
\* exists) find the tables as the dead process left them
connect(p) ==
    /\ pc[p].at = "crashed"
    /\ pc' = [pc EXCEPT ![p] = Idle]
    /\ ret' = Call("connect", "ok", NoVal)
    /\ UNCHANGED <<store, foreign_keys, next_id, date_vars>>

NextCrash ==
    \/ pc = AllIdle /\ \E name \in Names : create_habit(name)
    \/ pc = AllIdle /\ \E name, new_name \in Names :
                           rename_habit(name, new_name)
    \/ pc = AllIdle /\ \E name \in Names, date \in MarkDates :
                           mark_habit(name, date)
    \/ \E p \in Procs, name \in Names : delete_habit_entries(p, name)
    \/ \E p \in Procs : delete_habit_row(p)
    \/ \E p \in Procs : crash(p)
    \/ \E p \in Procs : connect(p)

SpecCrash == Init /\ [][NextCrash]_vars

(***************************************************************************)
(* mark_habit statement by statement, run by the processes of Procs        *)
(* against one store.  Each process has its own connection; a statement    *)
(* is atomic and autocommits, nothing ties the three statements of one     *)
(* mark_habit together, and the table has no uniqueness constraint.        *)
(***************************************************************************)
\* the dates the racing processes mark
RaceDates == {June7, Feb30}

\* mark_habit through get_habit_id, its first statement
mark_habit_id(p, name, date) ==
    /\ pc[p] = Idle
    /\ LET text == to_string(date)
           id == get_habit_id(habits, name)
       IN  IF ~text.ok
           THEN /\ ret' = Call("mark_habit", "invalid date", NoVal)
                /\ UNCHANGED pc
           ELSE IF ~id.ok
           THEN /\ ret' = Call("mark_habit", "not found", NoVal)
                /\ UNCHANGED pc
           ELSE /\ pc' = At(p, "id", name, date, id.val, 0)
                /\ UNCHANGED ret
    /\ UNCHANGED <<store, foreign_keys, next_id, date_vars>>

\* the select count(1) of a mark_habit that goes on whatever it counts
mark_habit_count_ignored(p) ==
    /\ pc[p].at = "id"
    /\ LET n == count_entries(habit_entries, pc[p].id,
                              to_string(pc[p].date).val)
       IN  /\ pc' = [pc EXCEPT ![p].at = "counted", ![p].n = n]
           /\ UNCHANGED ret
    /\ UNCHANGED <<store, foreign_keys, next_id, date_vars>>

\* the select count(1) and the test of its result
mark_habit_count(p) ==
    /\ pc[p].at = "id"
    /\ LET n == count_entries(habit_entries, pc[p].id,
                              to_string(pc[p].date).val)
       IN  IF n > 0
           THEN /\ ret' = Call("mark_habit", "already marked", NoVal)
                /\ pc' = [pc EXCEPT ![p] = Idle]
           ELSE /\ pc' = [pc EXCEPT ![p].at = "counted", ![p].n = n]
                /\ UNCHANGED ret
    /\ UNCHANGED <<store, foreign_keys, next_id, date_vars>>

\* the insert and the return; the declared foreign key refuses a row whose
\* habit is gone, which cannot happen while no process deletes
mark_habit_insert(p) ==
    /\ pc[p].at = "counted"
    /\ habit_entries' = habit_entries (+)
           SetToBag({[habit_id |-> pc[p].id,
                      date |-> to_string(pc[p].date).val]})
    /\ ret' = Call("mark_habit", "ok", NoVal)
    /\ pc' = [pc EXCEPT ![p] = Idle]
    /\ UNCHANGED <<habits, foreign_keys, next_id, date_vars>>

NextRace ==
    \/ pc = AllIdle /\ \E name \in Names : create_habit(name)
    \/ \E p \in Procs, name \in Names, date \in RaceDates :
           mark_habit_id(p, name, date)
    \/ \E p \in Procs : mark_habit_count(p)
    \/ \E p \in Procs : mark_habit_insert(p)

SpecRace == Init /\ [][NextRace]_vars

(***************************************************************************)
(* commands.rs: the list and delete commands over the store.  The create,  *)
(* rename and mark commands hand their arguments to the Storage operation  *)
(* of the same name and return what it returns.                            *)
(***************************************************************************)
\* an optional command line argument: a text, or a habit name
SomeText(text) == [some |-> TRUE, text |-> text]
NoText == [some |-> FALSE, text |-> <<>>]
SomeName(name) == [some |-> TRUE, name |-> name]
NoName == [some |-> FALSE, name |-> ""]

\* the date argument of list: 2006-06, 2006-02, 2006-6, or none
DateArgs ==
    { NoText,
      SomeText(FormatInt(2006, 4) \o <<Hyphen>> \o FormatInt(6, 2)),
      SomeText(FormatInt(2006, 4) \o <<Hyphen>> \o FormatInt(2, 2)),
      SomeText(FormatInt(2006, 4) \o <<Hyphen>> \o FormatInt(6, 1)) }

\* what chrono::Local::now() can be when list runs
NowDates == {June20, Y10K}

NameArgs == {SomeName(name) : name \in Names} \cup {NoName}

\* what stdin().read_line can give: Ok with the bytes read, the newline
\* included when there was one (nothing at end of input), or an error
LetterN == LetterY - 11
StdinLines ==
    { <<>>, <<Newline>>, <<LetterY>>, <<LetterY, Newline>>,
      <<LetterN, Newline>>, <<LetterY, LetterN, Newline>>,
      <<Space, LetterY, Newline>> }
Reads == {Ok(line) : line \in StdinLines} \cup {Err(<<>>)}

Max(a, b) == IF a >= b THEN a ELSE b

RECURSIVE Longest(_, _)
Longest(names, least) ==
    IF names = <<>> THEN least
    ELSE Longest(Tail(names), Max(least, Len(Head(names))))

\* the year and month list shows
list_target(arg, now) ==
    IF arg.some
    THEN from_string(arg.text \o <<Hyphen, Digit(0), Digit(1)>>)
    ELSE Ok(now)

list(arg, now) ==
    /\ LET names == habit_list(habits)
           target == list_target(arg, now)
       IN  IF ~target.ok
           THEN ret' = Call("list", "parse error", NoVal)
           ELSE
           LET year == target.val.year
               month == target.val.month
               days_in_month == num_days(year, month)
               date_start == Date(year, month, 1)
               date_end == Date(year, month, days_in_month)
               month_display ==
                   FormatInt(year, 4) \o <<Hyphen>> \o FormatInt(month, 2)
               target_indent == Longest(names, Len(month_display) + 2)
               line0 == [label |-> month_display,
                         indent |-> target_indent - Len(month_display),
                         cells |-> [i \in 1..days_in_month |-> Digit(i % 10)]]
               line(name) ==
                   LET days == marked_days(habits, habit_entries, name,
                                           date_start, date_end)
                   IN  IF days.res = "ok"
                       THEN [name |-> name, res |-> "ok",
                             indent |-> target_indent - Len(name),
                             cells |-> [i \in 1..days_in_month |->
                                 IF \E f \in DOMAIN days.val : f.day = i
                                 THEN LetterX ELSE Space]]
                       ELSE [name |-> name, res |-> days.res,
                             indent |-> 0, cells |-> <<>>]
           IN  ret' = Call("list", "ok",
                           [NoVal EXCEPT
                               !.header = line0,
                               !.lines = [k \in 1..Len(names) |->
                                             line(names[k])]])
    /\ UNCHANGED <<store, foreign_keys, next_id, date_vars, pc>>

\* the delete command; when it goes on to Storage::delete_habit, ret is what
\* that call returned, which is also what the command returns
delete(arg, read) ==
    IF ~arg.some
    THEN /\ ret' = Call("delete", "invalid args", NoVal)
         /\ UNCHANGED <<store, foreign_keys, next_id, date_vars, pc>>
    ELSE IF ~read.ok
    THEN /\ ret' = Call("delete", "io error", NoVal)
         /\ UNCHANGED <<store, foreign_keys, next_id, date_vars, pc>>
    ELSE IF Len(read.val) > 1 /\ read.val[1] = LetterY
    THEN delete_habit(arg.name)
    ELSE /\ ret' = Call("delete", "ok", NoVal)
         /\ UNCHANGED <<store, foreign_keys, next_id, date_vars, pc>>

NextCli ==
    \/ \E name \in Names : create_habit(name)
    \/ \E name, new_name \in Names : rename_habit(name, new_name)
    \/ \E name \in Names, date \in MarkDates : mark_habit(name, date)
    \/ \E arg \in DateArgs, now \in NowDates : list(arg, now)
    \/ \E arg \in NameArgs, read \in Reads : delete(arg, read)

SpecCli == Init /\ [][NextCli]_vars

(***************************************************************************)
(* The Date utility on its own: every Date of TestDates is validated,      *)
(* formatted, and the text parsed back.                                    *)
(***************************************************************************)
TestYears == ((1 - YearsBelowOne)..MaxYear) \cup {1900, 2000, 2006, 9999, 10000}
TestMonths == {0, 1, 2, 4, 12, 13}
TestDays == {0, 1, 28, 29, 30, 31, 32}
TestDates == {Date(y, m, d) : y \in TestYears, m \in TestMonths, d \in TestDays}

InitDate ==
    /\ habits = <<>>
    /\ habit_entries = EmptyBag
    /\ foreign_keys = FALSE
    /\ next_id = 0
    /\ ret = Call("date", "ok", NoVal)
    /\ self_date \in TestDates
    /\ formatted = Err(<<>>)
    /\ parsed = Err(NoDate)
    /\ date_str = <<>>
    /\ pc = AllIdle

Date_is_valid ==
    /\ ret' = Call("is_valid", "ok", BoolVal(is_valid(self_date)))
    /\ UNCHANGED <<store, foreign_keys, next_id, date_vars, pc>>

Date_num_days ==
    /\ ret' = Call("num_days", "ok",
                   NumVal(num_days(self_date.year, self_date.month)))
    /\ UNCHANGED <<store, foreign_keys, next_id, date_vars, pc>>

Date_to_string ==
    /\ formatted' = to_string(self_date)
    /\ ret' = Call("to_string", IF formatted'.ok THEN "ok" ELSE "invalid date",
                   NoVal)
    /\ UNCHANGED <<store, foreign_keys, next_id, self_date, parsed, date_str,
                   pc>>

\* from_string applied to the text to_string has just produced
Date_from_string ==
    /\ ret.op = "to_string"
    /\ formatted.ok
    /\ parsed' = from_string(formatted.val)
    /\ ret' = Call("from_string", IF parsed'.ok THEN "ok" ELSE "parse error",
                   NoVal)
    /\ UNCHANGED <<store, foreign_keys, next_id, self_date, formatted,
                   date_str, pc>>

NextDate ==
    \/ Date_is_valid
    \/ Date_num_days
    \/ Date_to_string
    \/ Date_from_string

SpecDate == InitDate /\ [][NextDate]_vars

(***************************************************************************)
(* Date::from_string on its own: a text of TestTexts is parsed.            *)
(***************************************************************************)
\* the letter a, a character that is no digit, sign, hyphen or space
Letter == Zero + 49

TestYearTexts ==
    { FormatInt(2006, 4), FormatInt(2004, 4), FormatInt(0, 4),
      FormatInt(206, 3), FormatInt(2006, 5),
      <<Plus>> \o FormatInt(6, 3), <<Hyphen>> \o FormatInt(6, 3),
      <<Digit(2), Digit(0), Letter, Digit(6)>> }
TestMonthTexts ==
    { FormatInt(6, 2), FormatInt(2, 2), FormatInt(13, 2), FormatInt(0, 2),
      FormatInt(6, 1), <<Plus, Digit(6)>>, <<Digit(0), Letter>> }
TestDayTexts ==
    { FormatInt(7, 2), FormatInt(29, 2), FormatInt(31, 2), FormatInt(0, 2),
      FormatInt(7, 1), <<Plus, Digit(7)>>, <<Hyphen, Digit(7)>> }
Pads == {<<>>, <<Space>>}

\* texts with three fields, and texts with fewer or more hyphens
TestTexts ==
    { lead \o y \o <<Hyphen>> \o m \o <<Hyphen>> \o d \o trail :
        lead \in Pads, y \in TestYearTexts, m \in TestMonthTexts,
        d \in TestDayTexts, trail \in Pads }
    \cup { <<>>, <<Space>>, FormatInt(2006, 4),
           FormatInt(2006, 4) \o <<Hyphen>> \o FormatInt(6, 2),
           FormatDate(June7) \o <<Hyphen>> \o FormatInt(8, 2) }

InitParse ==
    /\ habits = <<>>
    /\ habit_entries = EmptyBag
    /\ foreign_keys = FALSE
    /\ next_id = 0
    /\ ret = Call("date", "ok", NoVal)
    /\ self_date = NoDate
    /\ formatted = Err(<<>>)
    /\ parsed = Err(NoDate)
    /\ date_str \in TestTexts
    /\ pc = AllIdle

\* from_string applied to the text date_str
Date_from_string_text ==
    /\ ret.op = "date"
    /\ parsed' = from_string(date_str)
    /\ ret' = Call("from_string", IF parsed'.ok THEN "ok" ELSE "parse error",
                   NoVal)
    /\ UNCHANGED <<store, foreign_keys, next_id, self_date, formatted,
                   date_str, pc>>

NextParse == Date_from_string_text

SpecParse == InitParse /\ [][NextParse]_vars

(***************************************************************************)
(* Properties of the store.                                                *)
(***************************************************************************)
\* the ids of the rows of hs that carry the name
IdsNamed(hs, name) == {hs[i].id : i \in {j \in 1..Len(hs) : hs[j].name = name}}

\* there is a row of es for the habit id and the stored text
HasEntry(es, id, text) ==
    \E e \in DOMAIN es : e.habit_id = id /\ e.date = text

\* C1: no two habits in the store have the same name.
C1_UniqueNames ==
    \A i, j \in 1..Len(habits) : i # j => habits[i].name # habits[j].name

\* C2: every completion entry's habit_id is the id of a habit that is
\* present in the store.
C2_NoOrphanEntries ==
    \A e \in DOMAIN habit_entries :
        \E i \in 1..Len(habits) : habits[i].id = e.habit_id

\* C3: with the operations executed one at a time, the store never holds
\* two completion entries with the same (habit_id, date) pair.
C3_NoDuplicateEntries ==
    \A e \in DOMAIN habit_entries : habit_entries[e] = 1

\* one habit marked on two dates, and one date marked for two habits
C3_Witness ==
    /\ ret.op = "mark_habit" /\ ret.res = "ok"
    /\ \E e, f \in DOMAIN habit_entries :
          e.habit_id = f.habit_id /\ e.date # f.date
    /\ \E e, f \in DOMAIN habit_entries :
          e.habit_id # f.habit_id /\ e.date = f.date

\* C4: after a successful delete_habit(name), habit_exists(name) is false
\* and no completion entry belongs to a habit that carried the name before
\* the delete; on a name with no habit it fails with not found and leaves
\* the store unchanged.
C4_DeleteRemovesHabitAndEntries ==
    [][\A name \in Names :
        (ret'.op = "delete_habit" /\ delete_habit(name)) =>
            IF habit_exists(habits, name)
            THEN ret'.res = "ok" =>
                    /\ ~habit_exists(habits', name)
                    /\ \A e \in DOMAIN habit_entries' :
                          e.habit_id \notin IdsNamed(habits, name)
            ELSE ret'.res = "not found" /\ UNCHANGED store]_vars

\* the rows of hs other than the row get_habit_id(name) finds
OtherRows(hs, name) ==
    {i \in 1..Len(hs) : hs[i].id # get_habit_id(hs, name).val}

\* C5: after a successful rename_habit(old, new), get_habit_id(new) is what
\* get_habit_id(old) was, marked_days(new, range) is what marked_days(old,
\* range) was, and every other habit's name, id and entries are unchanged.
C5_RenamePreserves ==
    [][\A name, new_name \in Names :
        (ret'.op = "rename_habit" /\ rename_habit(name, new_name)
            /\ ret'.res = "ok") =>
            /\ get_habit_id(habits', new_name) = get_habit_id(habits, name)
            /\ \A r \in QueryRanges :
                  marked_days(habits', habit_entries', new_name, r[1], r[2])
                    = marked_days(habits, habit_entries, name, r[1], r[2])
            /\ Len(habits') = Len(habits)
            /\ \A i \in OtherRows(habits, name) : habits'[i] = habits[i]
            /\ habit_entries' = habit_entries]_vars

\* the Dates marked that have a text, with that text
MarkTexts == [date \in {d \in MarkDates : to_string(d).ok} |->
                 to_string(date).val]

\* C6: mark on a (habit, date) pair that has an entry fails with already
\* marked, unmark on a pair that has none fails with not marked, and both
\* leave the habits and the entries as they were.  The habit of the pair is
\* the one the name resolves to.
C6_FailedMarkUnmark ==
    [][/\ ret'.op = "mark_habit" =>
            \A name \in Names, date \in DOMAIN MarkTexts :
                LET id == get_habit_id(habits, name)
                IN  (/\ id.ok
                     /\ HasEntry(habit_entries, id.val, MarkTexts[date])
                     /\ mark_habit(name, date))
                        => (ret'.res = "already marked" /\ UNCHANGED store)
       /\ ret'.op = "unmark_habit" =>
            \A name \in Names, date \in DOMAIN MarkTexts :
                LET id == get_habit_id(habits, name)
                IN  (/\ id.ok
                     /\ ~HasEntry(habit_entries, id.val, MarkTexts[date])
                     /\ unmark_habit(name, date))
                        => (ret'.res = "not marked" /\ UNCHANGED store)
    ]_vars

\* a mark has been refused while the store holds entries
C6_Witness ==
    /\ ret.op = "mark_habit" /\ ret.res = "already marked"
    /\ habit_entries # EmptyBag

\* calendar order of two Dates
DateLeq(d, e) ==
    \/ d.year < e.year
    \/ d.year = e.year /\ d.month < e.month
    \/ d.year = e.year /\ d.month = e.month /\ d.day <= e.day

\* C7: for an existing habit and valid dates start and end, marked_days
\* returns exactly the dates d on which the habit has an entry and
\* start <= d <= end in calendar order.
C7_RangeQueryExact ==
    [][\A name \in Names, r \in QueryRanges :
        LET id == get_habit_id(habits, name)
            s == r[1]
            t == r[2]
        IN  (ret'.op = "get_marked_days" /\ get_marked_days(name, s, t)
                /\ id.ok /\ is_valid(s) /\ is_valid(t)) =>
              /\ ret'.res = "ok"
              /\ ret'.val.days = SetToBag({d \in MarkDates :
                    /\ is_valid(d)
                    /\ HasEntry(habit_entries, id.val, FormatDate(d))
                    /\ DateLeq(s, d)
                    /\ DateLeq(d, t)})]_vars

\* C8: create_habit fails with the duplicate error when the name exists and
\* with the validation error when the name is empty, the store unchanged in
\* both cases; otherwise it succeeds, adds exactly one habit with the name
\* and an id no existing habit has, and habit_exists(name) is true after.
C8_Create ==
    [][\A name \in Names :
        (ret'.op = "create_habit" /\ create_habit(name)) =>
            IF habit_exists(habits, name)
            THEN ret'.res = "already exists" /\ UNCHANGED store
            ELSE IF name = ""
            THEN ret'.res = "invalid name" /\ UNCHANGED store
            ELSE /\ ret'.res = "ok"
                 /\ Len(habits') = Len(habits) + 1
                 /\ SubSeq(habits', 1, Len(habits)) = habits
                 /\ habits'[Len(habits')].name = name
                 /\ \A i \in 1..Len(habits) :
                       habits[i].id # habits'[Len(habits')].id
                 /\ habit_exists(habits', name)
                 /\ UNCHANGED habit_entries]_vars

\* a second habit has been created next to an existing one
C8_Witness ==
    /\ ret.op = "create_habit" /\ ret.res = "ok"
    /\ Len(habits) >= 2

(***************************************************************************)
(* Properties of the Date utility.                                         *)
(***************************************************************************)
\* a valid Date in the words of the data model
ValidDate(d) ==
    /\ d.year >= 1
    /\ d.month \in 1..12
    /\ d.day \in 1..num_days(d.year, d.month)

\* C9: for any valid Date d, format(d) succeeds and parse(format(d))
\* succeeds and yields the year, month and day of d.
C9_RoundTrip ==
    ValidDate(self_date) =>
        /\ ret.op = "to_string" => formatted.ok
        /\ ret.op = "from_string" => (parsed.ok /\ parsed.val = self_date)

\* the rule of the Gregorian calendar
DivisibleBy(y, n) == y % n = 0
GregorianLeap(y) ==
    DivisibleBy(y, 4) /\ (~DivisibleBy(y, 100) \/ DivisibleBy(y, 400))

\* C10: for all integer years y, is_valid of February 29 of y is true if and
\* only if y is divisible by 4 and (not by 100, or by 400).
C10_LeapDayAllYears ==
    (ret.op = "is_valid" /\ self_date.month = 2 /\ self_date.day = 29)
        => (ret.val.flag <=> GregorianLeap(self_date.year))

\* C10, amended: the same for the years y >= 1; for y < 1 is_valid is false.
C10_LeapDayFromYearOne ==
    (ret.op = "is_valid" /\ self_date.month = 2 /\ self_date.day = 29)
        => IF self_date.year >= 1
           THEN ret.val.flag <=> GregorianLeap(self_date.year)
           ELSE ret.val.flag = FALSE

\* is_valid has accepted February 29 of a year divisible by 400
C10_Witness ==
    /\ ret.op = "is_valid"
    /\ self_date = Date(400, 2, 29)
    /\ ret.val.flag = TRUE


\* four digits, a hyphen, two digits, a hyphen, two digits and nothing else
StrictYMD(s) ==
    /\ Len(s) = 10
    /\ s[5] = Hyphen
    /\ s[8] = Hyphen
    /\ \A i \in {1, 2, 3, 4, 6, 7, 9, 10} : IsDigit(s[i])

\* the Date a strict text denotes
Denoted(s) ==
    Date(DigitsValue(SubSeq(s, 1, 4)), DigitsValue(SubSeq(s, 6, 7)),
         DigitsValue(SubSeq(s, 9, 10)))

\* C11: parse(text) succeeds only when text is exactly YYYY-MM-DD (four
\* digits, hyphen, two digits, hyphen, two digits) denoting a calendar-valid
\* date; every other text fails.
C11_ParseStrict ==
    (ret.op = "from_string" /\ parsed.ok) =>
        (StrictYMD(date_str) /\ ValidDate(Denoted(date_str)))


(***************************************************************************)
(* Further properties of the store, and of a crash inside delete_habit.    *)
(***************************************************************************)
\* C12: after any sequence of create_habit, rename_habit and delete_habit
\* operations, every habit in the store has a non-empty name.
C12_NonEmptyNames ==
    \A i \in 1..Len(habits) : habits[i].name # ""


\* C13: a successful unmark(name, date) removes exactly the completion entry
\* for that habit and date: every other entry of the same habit, every entry
\* of every other habit, and the set of habits are unchanged, and a following
\* mark(name, date) succeeds again.
C13_UnmarkExact ==
    [][/\ (ret'.op = "unmark_habit" /\ ret'.res = "ok") =>
            \A name \in Names, date \in DOMAIN MarkTexts :
                LET id == get_habit_id(habits, name)
                    gone == [habit_id |-> id.val, date |-> MarkTexts[date]]
                IN  unmark_habit(name, date) =>
                        /\ gone \in DOMAIN habit_entries
                        /\ habit_entries' =
                               Rows(habit_entries,
                                    DOMAIN habit_entries \ {gone})
                        /\ habits' = habits
                        \* a following mark finds the habit and no entry
                        /\ get_habit_id(habits', name) = id
                        /\ count_entries(habit_entries', id.val,
                                         MarkTexts[date]) = 0
       /\ ret'.op = "mark_habit" =>
            \A name \in Names, date \in DOMAIN MarkTexts :
                LET id == get_habit_id(habits, name)
                IN  (/\ id.ok
                     /\ count_entries(habit_entries, id.val,
                                      MarkTexts[date]) = 0
                     /\ mark_habit(name, date)) =>
                        /\ ret'.res = "ok"
                        /\ HasEntry(habit_entries', id.val, MarkTexts[date])
    ]_vars

\* unmark has succeeded and left another entry in the store
C13_Witness ==
    /\ ret.op = "unmark_habit"
    /\ ret.res = "ok"
    /\ habit_entries # EmptyBag


\* the renderings of the valid Dates among the Dates marked
ValidTexts == {FormatDate(date) : date \in {d \in MarkDates : ValidDate(d)}}

\* the Dates and the ranges the operations are called with that are not, or
\* have an end that is not, calendar-valid
InvalidDates == {d \in MarkDates : ~ValidDate(d)}
InvalidRanges ==
    {range \in QueryRanges : ~ValidDate(range[1]) \/ ~ValidDate(range[2])}

\* C14: mark, unmark and marked_days validate their Date arguments before
\* touching the store: called with a Date that is not calendar-valid they
\* fail and leave the store unchanged, so after any sequence of operations
\* every stored completion entry's date is a calendar-valid date.
C14_DatesValidated ==
    [][/\ ret'.op = "mark_habit" =>
            \A name \in Names, date \in InvalidDates :
                mark_habit(name, date) =>
                    (ret'.res = "invalid date" /\ UNCHANGED store)
       /\ ret'.op = "unmark_habit" =>
            \A name \in Names, date \in InvalidDates :
                unmark_habit(name, date) =>
                    (ret'.res = "invalid date" /\ UNCHANGED store)
       /\ ret'.op = "get_marked_days" =>
            IF ret'.res = "invalid date" THEN UNCHANGED store
            ELSE \A name \in Names, range \in InvalidRanges :
                     ~get_marked_days(name, range[1], range[2])
       /\ \A e \in DOMAIN habit_entries' : e.date \in ValidTexts
    ]_vars

\* mark has refused a Date that is not valid, in a store that holds entries
C14_Witness ==
    /\ ret.op = "mark_habit"
    /\ ret.res = "invalid date"
    /\ habit_entries # EmptyBag


\* the stored entries whose habit_id names no habit
Orphans(hs, es) ==
    {e \in DOMAIN es : \A i \in 1..Len(hs) : hs[i].id # e.habit_id}

\* C15: delete_habit issues two separate deletes with no enclosing
\* transaction; a crash after the first delete and before the second leaves
\* the store holding orphaned completion entries, i.e. entries whose habit_id
\* names no existing habit (stated for every crash of a delete whose first
\* statement removed entries).
C15_CrashLeavesOrphans ==
    \A p \in Procs :
        (pc[p].at = "crashed" /\ pc[p].n > 0) =>
            Orphans(habits, habit_entries) # {}

\* C15, amended: the first delete removes the entries and the second the
\* habit row, so a crash between them leaves the habit in the store without
\* entries, and no entry has become an orphan.
C15_CrashLeavesHabit ==
    [][\A p \in Procs :
        /\ (pc[p].at = "idle" /\ pc'[p].at = "entries_deleted") =>
               /\ habits' = habits
               /\ Orphans(habits', habit_entries')
                      \subseteq Orphans(habits, habit_entries)
        /\ pc'[p].at = "crashed" =>
               /\ habit_exists(habits', pc'[p].name)
               /\ \A e \in DOMAIN habit_entries' : e.habit_id # pc'[p].id
               /\ Orphans(habits', habit_entries')
                      \subseteq Orphans(habits, habit_entries)
    ]_vars

\* a delete_habit whose first statement removed entries has crashed
C15_Witness ==
    \E p \in Procs : pc[p].at = "crashed" /\ pc[p].n > 0


(***************************************************************************)
(* Properties of the commands.                                             *)
(***************************************************************************)
\* C16: in the monthly grid, each habit row has exactly
\* days_in_month(year, month) cells after the "| " separator, and for every
\* day i in 1..days_in_month the i-th cell is 'X' if and only if that habit
\* has a completion entry on day i of the target year and month; the
\* header's i-th cell is the digit i mod 10.
C16_Grid ==
    [][\A arg \in DateArgs, now \in NowDates :
        (ret'.op = "list" /\ list(arg, now) /\ ret'.res = "ok") =>
            LET year == list_target(arg, now).val.year
                month == list_target(arg, now).val.month
                days_in_month == num_days(year, month)
                header == ret'.val.header
                lines == ret'.val.lines
            IN  /\ Len(header.cells) = days_in_month
                /\ \A i \in 1..days_in_month :
                       header.cells[i] = Digit(i % 10)
                /\ Len(lines) = Len(habits)
                /\ \A k \in 1..Len(habits) :
                       /\ lines[k].name = habits[k].name
                       /\ lines[k].res = "ok"
                       /\ Len(lines[k].cells) = days_in_month
                       /\ \A i \in 1..days_in_month :
                              lines[k].cells[i] = LetterX <=>
                                  HasEntry(habit_entries, habits[k].id,
                                           FormatDate(Date(year, month, i)))
    ]_vars

\* the answer y, with or without the newline that ends the line
AnswerY(line) == line = <<LetterY, Newline>> \/ line = <<LetterY>>

\* C17: the delete command calls delete_habit only when the confirmation
\* line read from standard input is the answer y; for any other input
\* (including empty input or end of input) the store is left unchanged and
\* the command still returns success.
C17_DeleteOnlyOnY ==
    [][\A arg \in NameArgs, read \in Reads :
        (delete(arg, read) /\ arg.some /\ read.ok /\ ~AnswerY(read.val)) =>
            (UNCHANGED store /\ ret' = Call("delete", "ok", NoVal))
    ]_vars


(***************************************************************************)
(* Marks over time and under concurrency.                                  *)
(***************************************************************************)
\* marked_days(name, d, d) returns d
Visible(hs, es, name, d) ==
    LET r == marked_days(hs, es, name, d, d)
    IN  r.res = "ok" /\ d \in DOMAIN r.val

\* C18: after mark(name, d) succeeds for any valid Date d,
\* marked_days(name, d, d) returns d, and it keeps returning d until
\* unmark(name, d) or delete_habit(name) succeeds (a rename of the habit
\* moves the mark to the new name).
C18_MarkVisible ==
    [][\A name \in Names, d \in MarkDates :
        /\ (ret'.op = "mark_habit" /\ mark_habit(name, d)
                /\ ret'.res = "ok") =>
               Visible(habits', habit_entries', name, d)
        /\ (/\ Visible(habits, habit_entries, name, d)
            /\ ~(ret'.op = "unmark_habit" /\ unmark_habit(name, d)
                    /\ ret'.res = "ok")
            /\ ~(ret'.op = "delete_habit" /\ delete_habit(name)
                    /\ ret'.res = "ok")
            /\ ~(ret'.op = "rename_habit" /\ ret'.res = "ok"
                    /\ \E new_name \in Names : rename_habit(name, new_name))) =>
               Visible(habits', habit_entries', name, d)
    ]_vars


\* C19: when two processes run mark(name, date) for the same habit and date
\* against the same store and their statements interleave, at most one of
\* them inserts an entry, so the store never holds two entries with the same
\* (habit_id, date).
C19_RaceKeepsEntriesUnique ==
    \A id \in 1..next_id, date \in RaceDates :
        count_entries(habit_entries, id, FormatDate(date)) <= 1

\* C19, amended: a process whose existence check runs after the other's
\* insert fails and inserts nothing; when both checks run before either
\* insert both insert, so a pair can be stored twice, and never more often
\* than there are processes.
C19_RaceInsertsAfterEmptyCheck ==
    [][\A p \in Procs :
        /\ (/\ pc[p].at = "id"
            /\ pc'[p].at # "id"
            /\ HasEntry(habit_entries, pc[p].id, FormatDate(pc[p].date))) =>
               /\ pc'[p].at = "idle"
               /\ ret' = Call("mark_habit", "already marked", NoVal)
               /\ habit_entries' = habit_entries
        /\ (pc[p].at = "counted" /\ pc'[p].at = "idle") =>
               /\ pc[p].n = 0
               /\ habit_entries' = habit_entries (+)
                      SetToBag({[habit_id |-> pc[p].id,
                                 date |-> FormatDate(pc[p].date)]})
        /\ \A e \in DOMAIN habit_entries' :
               habit_entries'[e] <= Cardinality(Procs)
    ]_vars

\* both processes have inserted the same pair
C19_Witness ==
    /\ pc = AllIdle
    /\ \E e \in DOMAIN habit_entries : habit_entries[e] = Cardinality(Procs)

====
